---- MODULE Spec2Model ----
(***************************************************************************)
(* Model of strava-scraper.py: the OAuth client (get_strava_access_token), *)
(* the activity fetcher and the pagination loop of main, the run extractor *)
(* and the spreadsheet publisher (upload_runs_to_gsheets).                 *)
(*                                                                         *)
(* The token cache file and the spreadsheet persist from one run of the    *)
(* script to the next; everything else is local to a run, and the locals   *)
(* of a function exist only while the function is active.                  *)
(***************************************************************************)
EXTENDS Integers, Sequences, FiniteSets

\* ---------------------------------------------------------------- bounds
\* per_page: main passes per_page=100 and compares len(activities) with 100;
\* the model scales the page size down.
PER_PAGE == 2
\* activity ids of the upstream history are drawn from 1..MaxId
MaxId == 3
\* clock readings and expires_at values are drawn from 0..MaxTime
MaxTime == 1
\* operator-prepared sheets have at most MaxRows rows
MaxRows == 3
\* elapsed times tried on seconds_to_hms are 3661 * k for k in 0..MaxHmsSteps
MaxHmsSteps == 30

\* ---------------------------------------------------------------- values
None == "none"
Tokens == {"tokA", "tokB"}
RefreshTokens == {"refA"}
AuthCodes == {"codeA"}
Types == {"Run", "Ride"}

\* The content of STRAVA_OAUTH_SECRET_FILE: absent, or a token record.
NoFile == [exists |-> FALSE, access_token |-> None, refresh_token |-> None, expires_at |-> 0]
TokenRecords ==
  [exists : {TRUE}, access_token : Tokens,
   refresh_token : RefreshTokens \cup {None}, expires_at : 0..MaxTime]

NoPayload == [grant_type |-> None, refresh_token |-> None, code |-> None]

\* What requests.post / raise_for_status / response.json can do.
PostOutcomes == {"ok", "empty", "http_error", "transport_error"}

VARIABLES
  \* persistent
  cache,          \* STRAVA_OAUTH_SECRET_FILE
  sheet,          \* the rows of the sheet GSHEET_NAME
  \* main
  pc, upload, tok, page, activities, all_runs,
  \* get_strava_access_token locals and its effects on the outside
  oauth_tok_data, t_now, payload, postOutcome, data, ret, tokenPosts, prompts,
  \* upstream and what main did with it
  history, fetched, getFailed, respLens, fetchedAll, dumps,
  \* upload_runs_to_gsheets: argument, locals and its effects on the outside
  offered, readOutcome, existing_values, existing_runs, values, pubState, sheetCalls

vars == <<cache, sheet, pc, upload, tok, page, activities, all_runs,
          oauth_tok_data, t_now, payload, postOutcome, data, ret, tokenPosts, prompts,
          history, fetched, getFailed, respLens, fetchedAll, dumps,
          offered, readOutcome, existing_values, existing_runs, values, pubState, sheetCalls>>

persistVars == <<cache, sheet>>
mainVars == <<upload, tok, page, activities, all_runs>>
tokenVars == <<oauth_tok_data, t_now, payload, postOutcome, data, ret, tokenPosts, prompts>>
fetchVars == <<history, fetched, getFailed, respLens, fetchedAll, dumps>>
pubVars == <<offered, readOutcome, existing_values, existing_runs, values, pubState, sheetCalls>>

\* ------------------------------------------------------------ OAuth client

\* datetime.now().timestamp() < oauth_tok_data.get("expires_at")
IsUnexpired_Flipped(t, rec) == t > rec.expires_at
IsUnexpired(t, rec) == t < rec.expires_at

\* payload after the expired branch: refresh_token copied from the record,
\* grant_type overwritten
RefreshPayload_NoToken(rec) ==
  [grant_type |-> "refresh_token", refresh_token |-> None, code |-> None]
RefreshPayload(rec) ==
  [grant_type |-> "refresh_token", refresh_token |-> rec.refresh_token, code |-> None]

\* payload after the no-file branch: grant_type stays authorization_code
AuthorizePayload(code) ==
  [grant_type |-> "authorization_code", refresh_token |-> None, code |-> code]

\* Everything after the POST: the except clauses, the empty-data check, the
\* write of the file and the return value.
AfterPost_Retry(outcome, body, file) ==
  IF outcome = "transport_error"
    THEN [pc |-> "tok_post", ret |-> None, file |-> file]
  ELSE IF outcome \in {"http_error", "empty"}
    THEN [pc |-> "tok_ret", ret |-> None, file |-> file]
  ELSE [pc |-> "tok_ret", ret |-> body.access_token, file |-> body]
EmptyRecord == [exists |-> TRUE, access_token |-> None, refresh_token |-> None, expires_at |-> 0]
AfterPost_WriteBeforeCheck(outcome, body, file) ==
  IF outcome \in {"http_error", "transport_error"}
    THEN [pc |-> "tok_ret", ret |-> None, file |-> file]
  ELSE IF outcome = "empty"
    THEN [pc |-> "tok_ret", ret |-> None, file |-> EmptyRecord]
  ELSE [pc |-> "tok_ret", ret |-> body.access_token, file |-> body]
AfterPost(outcome, body, file) ==
  IF outcome \in {"http_error", "transport_error"}
    THEN [pc |-> "tok_ret", ret |-> None, file |-> file]
  ELSE IF outcome = "empty"
    THEN [pc |-> "tok_ret", ret |-> None, file |-> file]
  ELSE [pc |-> "tok_ret", ret |-> body.access_token, file |-> body]

ClearedToken ==
  /\ oauth_tok_data' = NoFile
  /\ t_now' = 0
  /\ payload' = NoPayload
  /\ postOutcome' = None
  /\ data' = NoFile
  /\ ret' = None
  /\ tokenPosts' = 0
  /\ prompts' = 0

\* The file exists and the record is unexpired: return the cached token.
TokenCached ==
  /\ pc = "token"
  /\ cache.exists
  /\ \E t \in 0..MaxTime :
       /\ IsUnexpired(t, cache)
       /\ t_now' = t
  /\ oauth_tok_data' = cache
  /\ ret' = cache.access_token
  /\ pc' = "tok_ret"
  /\ UNCHANGED <<payload, postOutcome, data, tokenPosts, prompts>>
  /\ UNCHANGED <<persistVars, mainVars, fetchVars, pubVars>>

\* The file exists and the record is not unexpired: build a refresh request.
TokenExpired ==
  /\ pc = "token"
  /\ cache.exists
  /\ \E t \in 0..MaxTime :
       /\ ~IsUnexpired(t, cache)
       /\ t_now' = t
  /\ oauth_tok_data' = cache
  /\ payload' = RefreshPayload(cache)
  /\ pc' = "tok_post"
  /\ UNCHANGED <<postOutcome, data, ret, tokenPosts, prompts>>
  /\ UNCHANGED <<persistVars, mainVars, fetchVars, pubVars>>

\* No file: prompt the operator for an authorization code.
TokenPrompt ==
  /\ pc = "token"
  /\ ~cache.exists
  /\ \E code \in AuthCodes : payload' = AuthorizePayload(code)
  /\ prompts' = prompts + 1
  /\ pc' = "tok_post"
  /\ UNCHANGED <<oauth_tok_data, t_now, postOutcome, data, ret, tokenPosts>>
  /\ UNCHANGED <<persistVars, mainVars, fetchVars, pubVars>>

\* requests.post(ACCESS_TOKEN_URL, data=payload) and what follows it.
TokenPost ==
  /\ pc = "tok_post"
  /\ \E outcome \in PostOutcomes, body \in TokenRecords :
       LET r == AfterPost(outcome, body, cache) IN
         /\ postOutcome' = outcome
         /\ data' = IF outcome = "ok" THEN body ELSE NoFile
         /\ ret' = r.ret
         /\ cache' = r.file
         /\ pc' = r.pc
  /\ tokenPosts' = tokenPosts + 1
  /\ UNCHANGED <<oauth_tok_data, t_now, payload, prompts>>
  /\ UNCHANGED <<sheet, mainVars, fetchVars, pubVars>>

\* -------------------------------------------------------------------- main

\* tok = await get_strava_access_token(); if not tok: return
MainAfterToken_NoCheck(r) == "fetch"
MainAfterToken(r) == IF r = None THEN "done" ELSE "fetch"

\* An activity as the upstream API returns it. The fields the script reads
\* with a default (name, distance, start_date_local, ...) are absent here, so
\* every such read yields its default.
ElapsedOf(i) == 3600 + 61 * i
Activity(i, ty) == [id |-> i, type |-> ty, elapsed_time |-> ElapsedOf(i)]

Max(S) == CHOOSE m \in S : \A x \in S : x <= m
RECURSIVE DescSeq(_)
DescSeq(S) == IF S = {} THEN <<>> ELSE <<Max(S)>> \o DescSeq(S \ {Max(S)})

\* The upstream history of the athlete, newest first, ids distinct.
HistoryOf(S, ty) ==
  LET d == DescSeq(S) IN [k \in 1..Len(d) |-> Activity(d[k], ty[d[k]])]
Histories == { HistoryOf(S, ty) : S \in SUBSET (1..MaxId), ty \in [1..MaxId -> Types] }

Min2(a, b) == IF a < b THEN a ELSE b

\* What the activities endpoint serves for ?page=&per_page=
PageOf(h, p, per_page) ==
  SubSeq(h, (p - 1) * per_page + 1, Min2(p * per_page, Len(h)))

\* get_strava_activities: the JSON list, or [] on any requests exception
get_strava_activities(outcome, h, p, per_page) ==
  IF outcome = "ok" THEN PageOf(h, p, per_page) ELSE <<>>

GetOutcomes == {"ok", "http_error", "connection_error", "timeout", "request_error"}

\* Decimal text, one character per element.
Digit == <<"0", "1", "2", "3", "4", "5", "6", "7", "8", "9">>
RECURSIVE Dec(_)
Dec(n) == IF n < 10 THEN <<Digit[n + 1]>> ELSE Dec(n \div 10) \o <<Digit[(n % 10) + 1]>>
\* "%02d" of a number below 100
Pad2(n) == <<Digit[(n \div 10) + 1], Digit[(n % 10) + 1]>>

\* str(datetime.timedelta(seconds=s)): timedelta keeps days and the seconds
\* of the day; __str__ prints "%d:%02d:%02d" of the seconds of the day and
\* puts "%d day%s, " before it when days is not zero.
seconds_to_hms(s) ==
  LET days == s \div 86400
      secs == s % 86400
      hh == secs \div 3600
      mm == (secs \div 60) % 60
      ss == secs % 60
      hms == Dec(hh) \o <<":">> \o Pad2(mm) \o <<":">> \o Pad2(ss)
  IN IF days # 0
       THEN Dec(days) \o <<" ", "d", "a", "y">> \o (IF days # 1 THEN <<"s">> ELSE <<>>)
              \o <<",", " ">> \o hms
       ELSE hms

\* The record main appends to all_runs for an activity of type Run.
RunRecord(a) ==
  [name |-> "Unnamed Run", date |-> "N/A", miles_run |-> 0,
   time_elapsed |-> seconds_to_hms(a.elapsed_time), average_cadence |-> "N/A"]

IsRun_Any(a) == TRUE
IsRun(a) == a.type = "Run"

RECURSIVE MapRunRecord(_)
MapRunRecord(s) ==
  IF s = <<>> THEN <<>> ELSE <<RunRecord(Head(s))>> \o MapRunRecord(Tail(s))

\* The "for activity in activities" loop of main.
ExtractRuns(acts) == MapRunRecord(SelectSeq(acts, IsRun))

\* The two exits of the while loop: "if not activities: break" and
\* "if len(activities) < 100: break".
LoopBreaks_OffByOne(resp, per_page) == resp = <<>> \/ Len(resp) <= per_page
LoopBreaks_OnlyOnEmpty(resp, per_page) == resp = <<>>
LoopBreaks(resp, per_page) == resp = <<>> \/ Len(resp) < per_page

ClearedFetch ==
  /\ history' = <<>>
  /\ fetched' = <<>>
  /\ getFailed' = FALSE
  /\ respLens' = <<>>
  /\ fetchedAll' = <<>>
  /\ dumps' = 0

ClearedPub ==
  /\ offered' = <<>>
  /\ readOutcome' = None
  /\ existing_values' = <<>>
  /\ existing_runs' = {}
  /\ values' = <<>>
  /\ pubState' = None
  /\ sheetCalls' = 0

\* asyncio.run(main(args.upload)): a run of the script starts.
StartRun ==
  /\ pc \in {"idle", "done", "crashed"}
  /\ pc' = "token"
  /\ upload' \in BOOLEAN
  /\ tok' = None
  /\ page' = 1
  /\ activities' = <<>>
  /\ all_runs' = <<>>
  /\ ClearedToken
  /\ ClearedFetch
  /\ ClearedPub
  /\ UNCHANGED persistVars

\* get_strava_access_token returns to main, which stops on a null token and
\* otherwise enters the loop with page = 1. The upstream history of this run
\* is whatever the athlete's account holds at that moment.
TokenReturn ==
  /\ pc = "tok_ret"
  /\ tok' = ret
  /\ pc' = MainAfterToken(ret)
  /\ ClearedToken
  /\ IF MainAfterToken(ret) = "fetch"
       THEN history' \in Histories
       ELSE history' = <<>>
  /\ UNCHANGED <<fetched, getFailed, respLens, fetchedAll, dumps>>
  /\ UNCHANGED <<upload, page, activities, all_runs>>
  /\ UNCHANGED <<persistVars, pubVars>>

\* One iteration of the while loop: fetch the page, dump it, extract the
\* runs, then break or move to the next page.
FetchPage ==
  /\ pc = "fetch"
  /\ \E outcome \in GetOutcomes :
       LET resp == get_strava_activities(outcome, history, page, PER_PAGE) IN
         /\ activities' = resp
         /\ fetched' = Append(fetched, page)
         /\ getFailed' = (outcome # "ok")
         /\ respLens' = Append(respLens, Len(resp))
         /\ fetchedAll' = fetchedAll \o resp
         /\ dumps' = IF resp = <<>> THEN dumps ELSE dumps + 1
         /\ all_runs' = all_runs \o ExtractRuns(resp)
         /\ IF LoopBreaks(resp, PER_PAGE)
              THEN pc' = "output" /\ page' = page
              ELSE pc' = "fetch" /\ page' = page + 1
  /\ UNCHANGED <<history, upload, tok>>
  /\ UNCHANGED <<persistVars, tokenVars, pubVars>>

\* upload is false: print the runs (or the "nothing found" text).
Console ==
  /\ pc = "output"
  /\ ~upload
  /\ pc' = "done"
  /\ UNCHANGED <<persistVars, mainVars, tokenVars, fetchVars, pubVars>>

\* --------------------------------------------------------------- publisher

\* Cells as the sheet stores them (valueInputOption RAW): a number or a text.
Num(i) == [t |-> "num", n |-> i, s |-> ""]
Text(x) == [t |-> "text", n |-> 0, s |-> x]

\* values().get returns every cell as text: a number comes back as its
\* decimal text, which int() parses; any other text makes int() raise.
FormatCell(c) == IF c.t = "num" THEN [t |-> "numtext", n |-> c.n, s |-> ""] ELSE c
FormatRow(r) == [k \in 1..Len(r) |-> FormatCell(r[k])]
\* The rows come back up to the last row that has a cell; a blank row above
\* it comes back as an empty list.
LastFilled(sh) ==
  IF \E k \in 1..Len(sh) : Len(sh[k]) > 0
    THEN CHOOSE k \in 1..Len(sh) : Len(sh[k]) > 0 /\ \A j \in (k + 1)..Len(sh) : Len(sh[j]) = 0
    ELSE 0
ReadValues(sh) == [k \in 1..LastFilled(sh) |-> FormatRow(sh[k])]
IntParses(c) == c.t = "numtext"
IntOf(c) == c.n

HeaderRow ==
  <<Text("ID"), Text("Name"), Text("Date"), Text("Distance Run (Meters)"),
    Text("Time Elapsed"), Text("Average Cadence"), Text("Elevation Gain"),
    Text("Average Speed"), Text("Average Heart Rate")>>

\* The row appended to values for one incoming run.
RowOf(run) ==
  <<Num(run.id), Text("Unnamed Run"), Text("N/A"), Num(0), Num(run.elapsed_time),
    Text("N/A"), Text("N/A"), Text("N/A"), Text("N/A")>>

\* "for row in existing_values[1:]": the except handler formats row[0] again,
\* so a row with no cells raises IndexError out of the handler.
ScanRaises(ev) == ev # <<>> /\ \E k \in 2..Len(ev) : Len(ev[k]) = 0
ExistingRuns(ev) ==
  IF ev = <<>> THEN {}
  ELSE { IntOf(ev[k][1]) : k \in { j \in 2..Len(ev) : Len(ev[j]) > 0 /\ IntParses(ev[j][1]) } }

RECURSIVE NewRows(_, _)
NewRows(runs, existing) ==
  IF runs = <<>> THEN <<>>
  ELSE IF Head(runs).id \in existing THEN NewRows(Tail(runs), existing)
  ELSE <<RowOf(Head(runs))>> \o NewRows(Tail(runs), existing)

\* values: the header when existing_runs is empty, then the new rows.
BuildValues_HeaderLast(runs, existing) ==
  NewRows(runs, existing) \o (IF Cardinality(existing) = 0 THEN <<HeaderRow>> ELSE <<>>)
BuildValues(runs, existing) ==
  (IF Cardinality(existing) = 0 THEN <<HeaderRow>> ELSE <<>>) \o NewRows(runs, existing)

\* values().update(range=GSHEET_NAME, body={"values": vals}): the cells are
\* written from the top-left cell of the sheet; cells outside vals are kept.
OverlayRow(old, new) ==
  [k \in 1..(IF Len(old) > Len(new) THEN Len(old) ELSE Len(new)) |->
     IF k <= Len(new) THEN new[k] ELSE old[k]]
UpdateSheet(sh, vals) ==
  [k \in 1..(IF Len(sh) > Len(vals) THEN Len(sh) ELSE Len(vals)) |->
     IF k > Len(vals) THEN sh[k]
     ELSE IF k > Len(sh) THEN vals[k]
     ELSE OverlayRow(sh[k], vals[k])]

AuthOutcomes == {"ok", "raise"}
SheetOutcomes == {"ok", "HttpError"}

\* upload is true: await upload_runs_to_gsheets(activities). The argument is
\* main's variable activities, the last page the loop fetched.
Publish ==
  /\ pc = "output"
  /\ upload
  /\ offered' = activities
  /\ \E auth \in AuthOutcomes, rd \in SheetOutcomes, wr \in SheetOutcomes :
       IF auth = "raise"
         THEN \* google_auth raised (refresh or consent flow failed)
           /\ pubState' = "auth_raised"
           /\ pc' = "crashed"
           /\ UNCHANGED <<sheet, readOutcome, existing_values, existing_runs, values, sheetCalls>>
       ELSE IF rd = "HttpError"
         THEN \* existing_values was never bound: "if not existing_values"
              \* raises UnboundLocalError, which no handler catches
           /\ readOutcome' = rd
           /\ pubState' = "read_unbound"
           /\ pc' = "crashed"
           /\ sheetCalls' = 1
           /\ UNCHANGED <<sheet, existing_values, existing_runs, values>>
       ELSE LET ev == ReadValues(sheet) IN
         IF ScanRaises(ev)
           THEN
             /\ readOutcome' = rd
             /\ existing_values' = ev
             /\ pubState' = "scan_raised"
             /\ pc' = "crashed"
             /\ sheetCalls' = 1
             /\ UNCHANGED <<sheet, existing_runs, values>>
         ELSE LET er == ExistingRuns(ev)
                  vals == BuildValues(activities, er) IN
           /\ readOutcome' = rd
           /\ existing_values' = ev
           /\ existing_runs' = er
           /\ values' = vals
           /\ pc' = "done"
           /\ IF vals = <<>>
                THEN /\ pubState' = "nothing"
                     /\ sheetCalls' = 1
                     /\ UNCHANGED sheet
                ELSE /\ sheetCalls' = 2
                     /\ IF wr = "ok"
                          THEN /\ sheet' = UpdateSheet(sheet, vals)
                               /\ pubState' = "written"
                          ELSE /\ pubState' = "write_failed"
                               /\ UNCHANGED sheet
  /\ UNCHANGED <<cache, mainVars, tokenVars, fetchVars>>

\* ------------------------------------------------------------ specification

Init ==
  /\ cache = NoFile
  /\ sheet = <<>>
  /\ pc = "idle"
  /\ upload = FALSE
  /\ tok = None
  /\ page = 1
  /\ activities = <<>>
  /\ all_runs = <<>>
  /\ oauth_tok_data = NoFile
  /\ t_now = 0
  /\ payload = NoPayload
  /\ postOutcome = None
  /\ data = NoFile
  /\ ret = None
  /\ tokenPosts = 0
  /\ prompts = 0
  /\ history = <<>>
  /\ fetched = <<>>
  /\ getFailed = FALSE
  /\ respLens = <<>>
  /\ fetchedAll = <<>>
  /\ dumps = 0
  /\ offered = <<>>
  /\ readOutcome = None
  /\ existing_values = <<>>
  /\ existing_runs = {}
  /\ values = <<>>
  /\ pubState = None
  /\ sheetCalls = 0

Next ==
  \/ StartRun
  \/ TokenCached
  \/ TokenExpired
  \/ TokenPrompt
  \/ TokenPost
  \/ TokenReturn
  \/ FetchPage
  \/ Console
  \/ Publish

Spec == Init /\ [][Next]_vars

\* -------------------------------------------- the loop of main on its own

\* main right after a successful get_strava_access_token, about to request
\* page 1 in console mode.
InitLoop ==
  /\ cache \in TokenRecords
  /\ sheet = <<>>
  /\ pc = "fetch"
  /\ upload = FALSE
  /\ tok = cache.access_token
  /\ page = 1
  /\ activities = <<>>
  /\ all_runs = <<>>
  /\ oauth_tok_data = NoFile
  /\ t_now = 0
  /\ payload = NoPayload
  /\ postOutcome = None
  /\ data = NoFile
  /\ ret = None
  /\ tokenPosts = 0
  /\ prompts = 0
  /\ history \in Histories
  /\ fetched = <<>>
  /\ getFailed = FALSE
  /\ respLens = <<>>
  /\ fetchedAll = <<>>
  /\ dumps = 0
  /\ offered = <<>>
  /\ readOutcome = None
  /\ existing_values = <<>>
  /\ existing_runs = {}
  /\ values = <<>>
  /\ pubState = None
  /\ sheetCalls = 0

NextLoop ==
  \/ FetchPage
  \/ Console

\* The loop is sequential code: it takes its next iteration whenever it has
\* one to take.
SpecLoop == InitLoop /\ [][NextLoop]_vars /\ WF_vars(FetchPage)

\* ------------------------------------- seconds_to_hms on longer activities

SampleSeconds == { 3661 * k : k \in 0..MaxHmsSteps }

\* As InitLoop, the history being one run of an elapsed time to convert.
InitHms ==
  /\ cache \in TokenRecords
  /\ sheet = <<>>
  /\ pc = "fetch"
  /\ upload = FALSE
  /\ tok = cache.access_token
  /\ page = 1
  /\ activities = <<>>
  /\ all_runs = <<>>
  /\ oauth_tok_data = NoFile
  /\ t_now = 0
  /\ payload = NoPayload
  /\ postOutcome = None
  /\ data = NoFile
  /\ ret = None
  /\ tokenPosts = 0
  /\ prompts = 0
  /\ history \in { <<[id |-> 1, type |-> "Run", elapsed_time |-> sec]>> : sec \in SampleSeconds }
  /\ fetched = <<>>
  /\ getFailed = FALSE
  /\ respLens = <<>>
  /\ fetchedAll = <<>>
  /\ dumps = 0
  /\ offered = <<>>
  /\ readOutcome = None
  /\ existing_values = <<>>
  /\ existing_runs = {}
  /\ values = <<>>
  /\ pubState = None
  /\ sheetCalls = 0

SpecHms == InitHms /\ [][NextLoop]_vars

\* ------------------------------- the publisher on a sheet the operator edited

\* Rows a sheet can hold: the header, a run row, a blank row, a row of notes.
RowKinds ==
  {HeaderRow, <<>>, <<Text("note")>>} \cup { RowOf(Activity(i, "Run")) : i \in 1..MaxId }
OperatorSheets == UNION { [1..n -> RowKinds] : n \in 0..MaxRows }

\* main in publish mode after a loop of one page shorter than per_page, the
\* sheet being as the operator left it.
InitPublish ==
  /\ cache \in { r \in TokenRecords : r.access_token = "tokA" /\ r.expires_at = MaxTime }
  /\ sheet \in OperatorSheets
  /\ pc = "output"
  /\ upload = TRUE
  /\ tok = cache.access_token
  /\ page = 1
  /\ history \in { h \in Histories : Len(h) < PER_PAGE }
  /\ activities = history
  /\ all_runs = ExtractRuns(history)
  /\ oauth_tok_data = NoFile
  /\ t_now = 0
  /\ payload = NoPayload
  /\ postOutcome = None
  /\ data = NoFile
  /\ ret = None
  /\ tokenPosts = 0
  /\ prompts = 0
  /\ fetched = <<1>>
  /\ getFailed = FALSE
  /\ respLens = <<Len(history)>>
  /\ fetchedAll = history
  /\ dumps = (IF history = <<>> THEN 0 ELSE 1)
  /\ offered = <<>>
  /\ readOutcome = None
  /\ existing_values = <<>>
  /\ existing_runs = {}
  /\ values = <<>>
  /\ pubState = None
  /\ sheetCalls = 0

SpecPublish == InitPublish /\ [][Publish]_vars

\* ------------------------------------------------------------------ claims

Range(f) == { f[k] : k \in DOMAIN f }

\* The publisher has been called in this run.
PublisherCalled == pubState # None

\* C1: in publish mode the records handed to the publisher are the
\* activities of type Run from ALL fetched pages, and nothing else.
C1_PublisherGetsAllRuns ==
  PublisherCalled => offered = SelectSeq(fetchedAll, IsRun)

\* C2: a publish that writes only appends: every row the sheet had before is
\* still there unchanged, and the written rows come after them.
C2_PublishOnlyAppends ==
  pubState = "written" =>
    LET new == NewRows(offered, existing_runs) IN
      /\ \A k \in 1..Len(existing_values) :
           k <= Len(sheet) /\ FormatRow(sheet[k]) = existing_values[k]
      /\ \E off \in Len(existing_values)..Len(sheet) :
           \A j \in 1..Len(new) :
             off + j <= Len(sheet) /\ sheet[off + j] = new[j]

\* The activity ids the sheet holds in its first column.
SheetIds(ev) ==
  { IntOf(ev[k][1]) : k \in { j \in 1..Len(ev) : Len(ev[j]) > 0 /\ IntParses(ev[j][1]) } }

\* C3: publish writes a row for an incoming run if and only if the run's id
\* is not among the activity ids already in the sheet.
C3_DedupAgainstSheet ==
  pubState \in {"written", "nothing"} =>
    \A k \in 1..Len(offered) :
      (RowOf(offered[k]) \in Range(values)) <=> (offered[k].id \notin SheetIds(existing_values))

\* C4: when the spreadsheet read raises, publish goes on with an empty
\* published-id set and writes every incoming run as new.
C4_ReadFailureContinues ==
  readOutcome = "HttpError" =>
    /\ pubState \in {"written", "write_failed"}
    /\ existing_runs = {}
    /\ values = BuildValues(offered, {})

\* get_strava_access_token has loaded a cached record and is past its branch.
LoadedCache == pc \in {"tok_post", "tok_ret"} /\ oauth_tok_data.exists

\* C5: a cached record with expires_at in the past and no refresh token makes
\* the client prompt for an authorization code and use grant_type
\* authorization_code, not refresh_token.
C5_NoRefreshTokenPrompts ==
  (LoadedCache /\ oauth_tok_data.expires_at < t_now /\ oauth_tok_data.refresh_token = None) =>
    /\ prompts = 1
    /\ payload.grant_type = "authorization_code"

\* C6: a cached record with now < expires_at is answered from the cache: no
\* token request, no prompt, and the cached access_token is returned.
C6_UnexpiredUsesCache ==
  (pc = "tok_ret" /\ oauth_tok_data.exists /\ t_now < oauth_tok_data.expires_at) =>
    /\ tokenPosts = 0
    /\ prompts = 0
    /\ payload = NoPayload
    /\ ret = oauth_tok_data.access_token
C6_Witness ==
  /\ pc = "tok_ret"
  /\ oauth_tok_data.exists
  /\ t_now < oauth_tok_data.expires_at
  /\ ret = oauth_tok_data.access_token
  /\ ret \in Tokens

\* C7: an expired cached record with a refresh token leads to one request of
\* grant_type refresh_token carrying that token; on success the returned
\* record is the cached record when the function returns, and the return
\* value is its access_token.
C7_ExpiredRefreshes ==
  (pc = "tok_ret" /\ oauth_tok_data.exists /\ ~(t_now < oauth_tok_data.expires_at)
     /\ oauth_tok_data.refresh_token # None) =>
    /\ tokenPosts = 1
    /\ prompts = 0
    /\ payload.grant_type = "refresh_token"
    /\ payload.refresh_token = oauth_tok_data.refresh_token
    /\ (postOutcome = "ok" => cache = data /\ ret = data.access_token)
C7_Witness ==
  /\ pc = "tok_ret"
  /\ oauth_tok_data.exists
  /\ oauth_tok_data.expires_at < t_now
  /\ oauth_tok_data.refresh_token \in RefreshTokens
  /\ payload.refresh_token = oauth_tok_data.refresh_token
  /\ postOutcome = "ok"
  /\ cache = data
  /\ cache # oauth_tok_data
  /\ ret = data.access_token
  /\ ret # oauth_tok_data.access_token

\* C8: after a transport or HTTP error of the token endpoint the function
\* returns null having made exactly one request; no run makes a second one.
C8_TokenErrorNoRetry ==
  /\ tokenPosts <= 1
  /\ (pc = "tok_ret" /\ postOutcome \in {"http_error", "transport_error"}) =>
       (ret = None /\ tokenPosts = 1)
C8_Witness ==
  /\ pc = "tok_ret"
  /\ postOutcome = "transport_error"
  /\ payload.grant_type = "refresh_token"
  /\ ret = None
  /\ tokenPosts = 1

\* main is past the call of get_strava_access_token.
PastToken == pc \in {"fetch", "output", "done", "crashed"}

\* C9: when the token fetch returned null, main has ended without an
\* activities request, a dump file or a spreadsheet call.
C9_NullTokenAborts ==
  (PastToken /\ tok = None) =>
    /\ pc = "done"
    /\ fetched = <<>>
    /\ dumps = 0
    /\ sheetCalls = 0
    /\ ~PublisherCalled
C9_Witness ==
  /\ pc = "done"
  /\ tok = None
  /\ upload
  /\ fetched = <<>>
  /\ sheetCalls = 0

\* C10: the pages requested are 1, 2, 3, ... in order, each once; the loop
\* goes on only after a page of exactly per_page items and is over right
\* after the first page with fewer.
C10_Pagination ==
  /\ fetched = [k \in 1..Len(fetched) |-> k]
  /\ Len(respLens) = Len(fetched)
  /\ \A k \in 1..(Len(respLens) - 1) : respLens[k] = PER_PAGE
  /\ (pc = "fetch" => page = Len(fetched) + 1
                      /\ (respLens # <<>> => respLens[Len(respLens)] = PER_PAGE))
  /\ (pc = "output" => respLens # <<>> /\ respLens[Len(respLens)] < PER_PAGE)
  /\ (pc \in {"done", "crashed"} /\ fetched # <<>> => respLens[Len(respLens)] < PER_PAGE)
C10_Witness ==
  /\ pc = "output"
  /\ Len(fetched) >= 2
  /\ respLens[1] = PER_PAGE
  /\ respLens[Len(respLens)] > 0
  /\ respLens[Len(respLens)] < PER_PAGE

\* The while loop of main is over.
PastFetch == pc \in {"output", "done", "crashed"} /\ fetched # <<>>

\* C11: a failed page fetch yields an empty list and ends pagination, and the
\* Run Records of the pages fetched before it are kept and delivered to the
\* output step (the console, or the publisher in publish mode).
C11_FailedFetchKeepsRuns ==
  getFailed =>
    /\ activities = <<>>
    /\ respLens[Len(respLens)] = 0
    /\ pc # "fetch"
    /\ all_runs = ExtractRuns(fetchedAll)
    /\ (PublisherCalled => offered = SelectSeq(fetchedAll, IsRun))

\* C12: when no incoming run has an id absent from the published set (the
\* incoming list may be empty), publish makes no write call.
C12_NothingNewNoWrite ==
  (pubState \in {"written", "write_failed", "nothing"}
     /\ \A k \in 1..Len(offered) : offered[k].id \in existing_runs) =>
    /\ pubState = "nothing"
    /\ sheetCalls = 1

\* One of the four external calls (token POST, activities GET, spreadsheet
\* read, spreadsheet write) has failed in this run.
ExternalCallFailed ==
  \/ (PastToken /\ tok = None)
  \/ getFailed
  \/ readOutcome = "HttpError"
  \/ pubState = "write_failed"

\* C13: a failure of an external call never ends main in an unhandled
\* exception.
C13_NoExceptionEscapes ==
  (ExternalCallFailed /\ pubState # "auth_raised") => pc # "crashed"

\* C15: when the read returns no rows, the header row is the first row of
\* what publish writes, ahead of every run row.
C15_HeaderFirstOnEmptySheet ==
  (pubState \in {"written", "write_failed", "nothing"} /\ existing_values = <<>>) =>
    /\ values # <<>>
    /\ values[1] = HeaderRow
    /\ \A j \in 2..Len(values) : values[j] # HeaderRow /\ values[j][1].t = "num"
    /\ (pubState = "written" => sheet[1] = HeaderRow)
C15_Witness ==
  /\ pubState = "written"
  /\ existing_values = <<>>
  /\ Len(values) >= 2
  /\ values[1] = HeaderRow
  /\ sheet = values

\* The activities of type Run of a list, in the order of the list.
RECURSIVE RunsIn(_)
RunsIn(acts) ==
  IF acts = <<>> THEN <<>>
  ELSE IF Head(acts).type = "Run" THEN <<Head(acts)>> \o RunsIn(Tail(acts))
  ELSE RunsIn(Tail(acts))

\* C16: the Run Records are exactly the records of the fetched activities of
\* type Run, one each, in the order the activities were fetched, over all
\* pages.
C16_RunFilter ==
  LET runs == RunsIn(fetchedAll) IN
    /\ Len(all_runs) = Len(runs)
    /\ \A k \in 1..Len(runs) : all_runs[k] = RunRecord(runs[k])
C16_Witness ==
  /\ pc = "output"
  /\ Len(fetched) >= 2
  /\ Len(all_runs) >= 2
  /\ Len(all_runs) < Len(fetchedAll)
  /\ all_runs[1] # all_runs[2]

\* C18: no activity id occupies two rows of the sheet, and every id the sheet
\* holds is recognised as already published by the next publish.
C18_SheetKeyedById ==
  /\ \A i, j \in 1..Len(sheet) :
       (i < j /\ Len(sheet[i]) > 0 /\ Len(sheet[j]) > 0
          /\ sheet[i][1].t = "num" /\ sheet[j][1].t = "num") => sheet[i][1].n # sheet[j][1].n
  /\ (pubState \in {"written", "write_failed", "nothing"} =>
        SheetIds(existing_values) \subseteq existing_runs)

\* C19: after a failed exchange (transport error, HTTP error status, empty
\* body) the cache file is what the function loaded; the file differs from
\* it only after a successful exchange, and is then the returned record.
C19_FailedExchangeKeepsCache ==
  /\ (pc = "tok_ret" /\ postOutcome \in {"http_error", "transport_error", "empty"}) =>
       cache = oauth_tok_data
  /\ (pc = "tok_ret" /\ cache # oauth_tok_data) => (postOutcome = "ok" /\ cache = data)
  /\ (pc = "tok_post" => cache = oauth_tok_data)
C19_Witness ==
  /\ pc = "tok_ret"
  /\ postOutcome = "empty"
  /\ oauth_tok_data.exists
  /\ cache = oauth_tok_data

\* C20: on a history of n items served without a failure the loop ends after
\* exactly n div per_page + 1 page requests, none of them repeated; on every
\* history the loop ends.
C20_LoopEnds ==
  /\ [](/\ \A i, j \in 1..Len(fetched) : i < j => fetched[i] # fetched[j]
        /\ Len(fetched) <= Len(history) \div PER_PAGE + 1
        /\ (PastFetch /\ ~getFailed => Len(fetched) = Len(history) \div PER_PAGE + 1))
  /\ (pc = "fetch" ~> pc = "output")
C20_Witness ==
  /\ pc = "output"
  /\ ~getFailed
  /\ Len(history) = MaxId
  /\ Len(fetched) = MaxId \div PER_PAGE + 1

\* The ids of the rows after the first whose first cell int() parses.
IdsAfterHeader(ev) ==
  { IntOf(ev[k][1]) : k \in { j \in 2..Len(ev) : Len(ev[j]) > 0 /\ IntParses(ev[j][1]) } }

\* C14: a row after the header whose first cell is not an integer (text, or
\* no cell at all) is skipped without stopping the scan: the ids of all other
\* rows are in the published set and publish goes on.
C14_BadRowsSkipped ==
  (PublisherCalled /\ readOutcome = "ok") =>
    /\ pc # "crashed"
    /\ existing_runs = IdsAfterHeader(existing_values)

\* "H:MM:SS" with H = s div 3600 unpadded, two-digit minutes and seconds.
HMSText(sec) ==
  Dec(sec \div 3600) \o <<":">> \o Pad2((sec \div 60) % 60) \o <<":">> \o Pad2(sec % 60)

\* C17: seconds_to_hms(s) is the text H:MM:SS with H = s div 3600, for every
\* non-negative s.
C17_HmsFormat ==
  LET runs == RunsIn(fetchedAll) IN
    \A k \in 1..Len(all_runs) :
      k <= Len(runs) /\ all_runs[k].time_elapsed = HMSText(runs[k].elapsed_time)

====
